---- MODULE Spec2Model ----
(***************************************************************************)
(* A model of the archive tools of mcp-archive (internal/archive):         *)
(* securePath, the five list readers, ListArchiveFiles, the five           *)
(* extractors and ExtractArchiveFiles, over a small file system.           *)
(*                                                                         *)
(* Go strings are sequences of one-character strings, so that HasPrefix,   *)
(* HasSuffix, Trim, Split and the regular expressions work on characters.  *)
(* Integers of the code are 64 bits wide; the model keeps the two's        *)
(* complement conversions and scales the width down to IntBits.            *)
(***************************************************************************)
EXTENDS Integers, Sequences, FiniteSets, TLC

\* ------------------------------------------------------------------ bounds

\* width of int64 / uint64, scaled down
IntBits == 4
\* symbolic links EvalSymlinks follows before giving up (255 in the Go library)
MaxLinks == 3
\* depth arguments range over -1 .. MaxDepth
MaxDepth == 2
\* limit arguments range over -1 .. MaxLimit
MaxLimit == 2
\* longest list of names given to an extract call
MaxNames == 2

\* ------------------------------------------------------------ evaluation

\* F at the value of v. A definition of a LET and an argument of an operator
\* are expressions, evaluated again at each use; Once evaluates v one time.
Once(v, F(_)) == CHOOSE r \in { F(x) : x \in { v } } : TRUE

\* ------------------------------------------------------------ Go strings

\* strings.HasPrefix
HasPrefix(s, prefix) ==
    Len(prefix) <= Len(s) /\ SubSeq(s, 1, Len(prefix)) = prefix

\* strings.HasSuffix
HasSuffix(s, suffix) ==
    Len(suffix) <= Len(s) /\ SubSeq(s, Len(s) - Len(suffix) + 1, Len(s)) = suffix

\* strings.Split(s, "/"): the pieces between the separators, empty ones kept
Split(s) ==
    LET cut == { 0, Len(s) + 1 } \cup { i \in 1..Len(s) : s[i] = "/" }
        nth(k) == CHOOSE c \in cut : Cardinality({ d \in cut : d < c }) = k
    IN  [k \in 1..(Cardinality(cut) - 1) |-> SubSeq(s, nth(k - 1) + 1, nth(k) - 1)]

\* strings.Trim(s, "/"): every leading and every trailing "/" removed
Trim(s) ==
    LET keep == { i \in 1..Len(s) : s[i] # "/" }
    IN  IF keep = {} THEN << >>
        ELSE SubSeq(s, CHOOSE i \in keep : \A j \in keep : i <= j,
                       CHOOSE i \in keep : \A j \in keep : i >= j)

\* a rooted path from its components: "/" alone for none
RECURSIVE JoinAbs(_)
JoinAbs(comps) ==
    IF comps = << >> THEN << >>
    ELSE << "/" >> \o Head(comps) \o JoinAbs(Tail(comps))

ToPath(comps) == IF comps = << >> THEN << "/" >> ELSE JoinAbs(comps)

\* filepath.IsAbs on unix
IsAbs(path) == path # << >> /\ path[1] = "/"

\* filepath.Clean of a rooted path: empty and "." components dropped, ".."
\* removes the component before it (and is dropped at the root)
RECURSIVE CleanComps(_, _)
CleanComps(comps, acc) ==
    IF comps = << >> THEN acc
    ELSE LET c == Head(comps)
         IN  IF c = << >> \/ c = << "." >> THEN CleanComps(Tail(comps), acc)
             ELSE IF c = << ".", "." >>
                  THEN CleanComps(Tail(comps),
                                  IF acc = << >> THEN acc
                                  ELSE SubSeq(acc, 1, Len(acc) - 1))
             ELSE CleanComps(Tail(comps), Append(acc, c))

Clean(path) == Once(Split(path), LAMBDA comps : ToPath(CleanComps(comps, << >>)))

\* ------------------------------------------------------------ fixed-width integers

Modulus == 2 ^ IntBits
MaxInt64 == 2 ^ (IntBits - 1) - 1

\* int64(u) of an unsigned value
ToInt64(u) == IF u > MaxInt64 THEN u - Modulus ELSE u

\* uint64(i) of a signed value
ToUint64(i) == IF i < 0 THEN i + Modulus ELSE i

\* ------------------------------------------------------------ archives

Formats == { "cpio", "targz", "tarbz2", "tarxz", "zip" }

\* the suffixes ListArchiveFiles and ExtractArchiveFiles test, in their order
Suffixes ==
    << [fmt |-> "cpio",   suffix |-> << ".", "c", "p", "i", "o" >>],
       [fmt |-> "targz",  suffix |-> << ".", "t", "a", "r", ".", "g", "z" >>],
       [fmt |-> "tarbz2", suffix |-> << ".", "t", "a", "r", ".", "b", "z", "2" >>],
       [fmt |-> "tarxz",  suffix |-> << ".", "t", "a", "r", ".", "x", "z" >>],
       [fmt |-> "zip",    suffix |-> << ".", "z", "i", "p" >>] >>

SuffixOf(fmt) == CHOOSE i \in 1..Len(Suffixes) : Suffixes[i].fmt = fmt

\* entry names
NameT == << "/", "t", "/" >>
NameA == << "d", "/", "a" >>
NameB == << "d", "/", "b" >>
NameC == << "d", "/", "e", "/", "c" >>
NameX == << "x" >>
NameTt == << "/", "t" >>

\* One record of an archive: an entry header with the bytes stored for it, or
\* damaged data at which the reader's Next fails. size is the size the header
\* declares (for zip the unsigned UncompressedSize64); data are the bytes the
\* archive really holds for the entry.
Entry(name, size, mode, data) ==
    [corrupt |-> FALSE, name |-> name, size |-> size, mode |-> mode, data |-> data]

Corrupt ==
    [corrupt |-> TRUE, name |-> << >>, size |-> 0, mode |-> 0, data |-> << >>]

\* the largest size a header of the format can declare that the reader accepts:
\* tar and cpio sizes are signed, a zip's UncompressedSize64 is unsigned
HugeSize(fmt) == IF fmt = "zip" THEN MaxInt64 + 2 ELSE MaxInt64

\* the bytes stored for the entry of that size: all of them in a tar or cpio
\* stream, one byte in a zip whose header overstates the size
HugeData(fmt) == IF fmt = "zip" THEN << 6 >> ELSE [i \in 1..MaxInt64 |-> 6]

\* the archives of the model, each stored in every format
Variants == { "mixed", "deep", "empty", "damaged" }

Content(variant, fmt) ==
    CASE variant = "mixed" ->
           << Entry(NameT, 0, 493, << >>),
              Entry(NameA, 1, 420, << 7 >>),
              Entry(NameB, 3, 420, << 1, 2, 3 >>),
              Entry(NameA, 2, 384, << 8, 9 >>) >>
      [] variant = "deep" ->
           << Entry(NameC, 1, 420, << 5 >>),
              Entry(NameB, HugeSize(fmt), 420, HugeData(fmt)),
              Entry(NameA, 2, 384, << 8, 9 >>) >>
      [] variant = "empty" -> << >>
      [] variant = "damaged" ->
           << Entry(NameA, 1, 420, << 7 >>),
              Entry(NameB, 2, 420, << 4 >>) >>
           \o (IF fmt = "zip" THEN << >> ELSE << Corrupt >>)

\* ------------------------------------------------------------ file system

Dir == [kind |-> "dir", fmt |-> "", ar |-> << >>, target |-> << >>]
File(fmt, ar) == [kind |-> "file", fmt |-> fmt, ar |-> ar, target |-> << >>]
Link(target) == [kind |-> "link", fmt |-> "", ar |-> << >>, target |-> target]

\* /w/d is the working directory, /w/d-e a directory beside it whose path
\* starts with the same characters, /o a directory elsewhere, /r a symbolic
\* link to /w/d
PathW == << "/", "w" >>
PathRoot == << "/", "w", "/", "d" >>
PathSibling == << "/", "w", "/", "d", "-", "e" >>
PathOut == << "/", "o" >>
PathR == << "/", "r" >>

ArchiveIn(dir, fmt) == dir \o << "/", "a" >> \o Suffixes[SuffixOf(fmt)].suffix

PathZip == ArchiveIn(PathRoot, "zip")
PathSiblingZip == ArchiveIn(PathSibling, "zip")
PathOutZip == ArchiveIn(PathOut, "zip")
PathText == PathRoot \o << "/", "a", ".", "t", "x", "t" >>
PathOutText == PathOut \o << "/", "a", ".", "t", "x", "t" >>
PathMissing == PathRoot \o << "/", "n", ".", "z", "i", "p" >>
PathTraversal == PathRoot \o << "/", ".", ".", "/", ".", ".", "/", "o", "/", "a", ".", "z", "i", "p" >>
PathRelative == << "a", ".", "z", "i", "p" >>
PathViaLink == ArchiveIn(PathR, "zip")
PathUpper == PathRoot \o << "/", "a", ".", "Z", "I", "P" >>
PathBroken == PathRoot \o << "/", "b", ".", "t", "a", "r", ".", "g", "z" >>
PathBrokenZip == PathRoot \o << "/", "b", ".", "z", "i", "p" >>

InitialFs(variant) ==
    [p \in { PathW, PathRoot, PathSibling, PathOut } |-> Dir]
    @@ (PathR :> Link(PathRoot))
    @@ [p \in { ArchiveIn(PathRoot, f) : f \in Formats } |->
          File(CHOOSE f \in Formats : p = ArchiveIn(PathRoot, f),
               Content(variant, CHOOSE f \in Formats : p = ArchiveIn(PathRoot, f)))]
    @@ (PathText :> File("", << >>))
    @@ (PathBroken :> File("", << >>))
    @@ (PathBrokenZip :> File("zip", << Corrupt >>))
    @@ (PathUpper :> File("zip", Content("mixed", "zip")))
    @@ (PathOutText :> File("", << >>))
    @@ (PathSiblingZip :> File("zip", Content("mixed", "zip")))
    @@ (PathOutZip :> File("zip", Content("mixed", "zip")))

\* filepath.EvalSymlinks of a cleaned absolute path on file system fsys: walk
\* the components, following each symbolic link met; dest are the components
\* resolved so far, rest the ones still to walk, links the links followed
RECURSIVE WalkSymlinks(_, _, _, _)
WalkSymlinks(fsys, dest, rest, links) ==
    IF rest = << >> THEN [err |-> "none", path |-> ToPath(dest)]
    ELSE LET c == Head(rest)
             next == Append(dest, c)
             p == ToPath(next)
         IN  IF c = << >> \/ c = << "." >>
                THEN WalkSymlinks(fsys, dest, Tail(rest), links)
             ELSE IF c = << ".", "." >>
                THEN WalkSymlinks(fsys,
                                  IF dest = << >> THEN dest
                                  ELSE SubSeq(dest, 1, Len(dest) - 1),
                                  Tail(rest), links)
             ELSE IF p \notin DOMAIN fsys
                THEN [err |-> "Unresolvable", path |-> << >>]
             ELSE IF fsys[p].kind = "link"
                THEN IF links >= MaxLinks
                        THEN [err |-> "Unresolvable", path |-> << >>]
                     ELSE IF IsAbs(fsys[p].target)
                        THEN WalkSymlinks(fsys, << >>,
                                          Split(fsys[p].target) \o Tail(rest), links + 1)
                     ELSE WalkSymlinks(fsys, dest,
                                       Split(fsys[p].target) \o Tail(rest), links + 1)
             ELSE IF fsys[p].kind # "dir" /\ Tail(rest) # << >>
                THEN [err |-> "Unresolvable", path |-> << >>]
             ELSE WalkSymlinks(fsys, next, Tail(rest), links)

EvalSymlinks(fsys, path) ==
    Once(Split(path), LAMBDA comps : WalkSymlinks(fsys, << >>, comps, 0))

\* Archive.securePath
securePath(fsys, workdir, path) ==
    IF ~IsAbs(path) THEN [err |-> "NotAbsolute", path |-> << >>]
    ELSE Once(Clean(path), LAMBDA cleanPath :
         Once(EvalSymlinks(fsys, cleanPath), LAMBDA evalPath :
            IF evalPath.err # "none" THEN evalPath
            ELSE IF ~HasPrefix(evalPath.path, workdir)
               THEN [err |-> "OutsideSandbox", path |-> << >>]
            ELSE evalPath))

\* New: the working directory made absolute and cleaned (filepath.Abs), its
\* symbolic links left as they are
New(workdir) == Clean(workdir)


\* ------------------------------------------------------------ regular expressions

\* The patterns of the model: none, one matching every name, one matching the
\* names that end in "a", and one that does not compile.
PatNone == << >>
PatAll == << ".", "*" >>
PatEndA == << "a", "$" >>
PatBad == << "(" >>

\* regexp.Compile succeeds: the parentheses balance and every "*" has an
\* operand. depth counts the groups still open, operand tells whether the
\* character before can be repeated.
RECURSIVE CompilesFrom(_, _, _)
CompilesFrom(re, depth, operand) ==
    IF re = << >> THEN depth = 0
    ELSE LET c == Head(re)
         IN  IF c = "(" THEN CompilesFrom(Tail(re), depth + 1, FALSE)
             ELSE IF c = ")" THEN depth > 0 /\ CompilesFrom(Tail(re), depth - 1, TRUE)
             ELSE IF c = "*" THEN operand /\ CompilesFrom(Tail(re), depth, FALSE)
             ELSE IF c = "^" \/ c = "$" THEN CompilesFrom(Tail(re), depth, FALSE)
             ELSE CompilesFrom(Tail(re), depth, TRUE)

Compiles(re) == CompilesFrom(re, 0, FALSE)

\* text matches re from its first character on (literals, ".", "*", "$")
RECURSIVE MatchHere(_, _)
MatchHere(re, text) ==
    IF re = << >> THEN TRUE
    ELSE IF Len(re) >= 2 /\ re[2] = "*"
       THEN \E k \in 0..Len(text) :
               /\ \A j \in 1..k : re[1] = "." \/ text[j] = re[1]
               /\ MatchHere(SubSeq(re, 3, Len(re)), SubSeq(text, k + 1, Len(text)))
    ELSE IF re = << "$" >> THEN text = << >>
    ELSE /\ text # << >>
         /\ re[1] = "." \/ re[1] = text[1]
         /\ MatchHere(Tail(re), Tail(text))

\* MatchString as a search for the pattern's characters themselves in the
\* name (strings.Contains where regexp.MatchString is meant)
MatchStringLiteral(pattern, name) ==
    [err |-> FALSE,
     matched |-> \E i \in 0..Len(name) : HasPrefix(SubSeq(name, i + 1, Len(name)), pattern)]

\* regexp.MatchString(pattern, name): the pattern is compiled, then searched
\* for anywhere in the name
MatchString(pattern, name) ==
    IF ~Compiles(pattern) THEN [err |-> TRUE, matched |-> FALSE]
    ELSE [err |-> FALSE,
          matched |->
            IF pattern # << >> /\ Head(pattern) = "^"
               THEN MatchHere(Tail(pattern), name)
            ELSE \E i \in 0..Len(name) :
                    MatchHere(pattern, SubSeq(name, i + 1, Len(name)))]

\* ------------------------------------------------------------ listing

\* the Permissions string: cpio prints its own mode type, tar an os.FileMode,
\* zip the mode of its header
Permissions(fmt, mode) ==
    [style |-> IF fmt = "cpio" THEN "cpio" ELSE IF fmt = "zip" THEN "zip" ELSE "posix",
     mode |-> mode]

FileInfo(name, size, perm) == [name |-> name, size |-> size, perm |-> perm]

\* the depth test with its comparison off by one
DepthSkipsOffByOne(name, depth) == depth > 0 /\ Len(Split(Trim(name))) >= depth

\* the depth test of the five list loops: the entry is skipped
DepthSkips(name, depth) == depth > 0 /\ Len(Split(Trim(name))) > depth

\* os.Open and the decompression layer of format fmt on the file at path
OpenArchive(fsys, fmt, path) ==
    IF path \notin DOMAIN fsys \/ fsys[path].kind # "file" \/ fsys[path].fmt # fmt
       THEN [err |-> "OpenFailed", ar |-> << >>]
    ELSE [err |-> "none", ar |-> fsys[path].ar]

\* What a call opens and closes: the handles it opened, in the order of their
\* opening, and the handles it closed, in the order of their closing.
NoHandles == [opened |-> << >>, closed |-> << >>]

\* the handles a reader holds once its archive is open: the file, and for
\* tar.gz the gzip stream (bzip2 and xz readers have no Close); zip.OpenReader
\* keeps the file inside its ReadCloser
Handles(fmt) ==
    IF fmt = "zip" THEN << "zip" >>
    ELSE IF fmt = "targz" THEN << "file", "gzip" >>
    ELSE << "file" >>

\* the deferred Close calls with the defer of gzr.Close() left out
DeferredNoGzip(hs, inner) ==
    [opened |-> hs \o inner,
     closed |-> inner \o SelectSeq([i \in 1..Len(hs) |-> hs[Len(hs) + 1 - i]],
                                   LAMBDA h : h # "gzip")]

\* the handles hs closed by their deferred Close calls when the function
\* returns, the last deferred first; inner are the handles opened and closed
\* in between
Deferred(hs, inner) ==
    [opened |-> hs \o inner,
     closed |-> inner \o [i \in 1..Len(hs) |-> hs[Len(hs) + 1 - i]]]

\* os.Open succeeds on the path
OpensFile(fsys, path) == path \in DOMAIN fsys /\ fsys[path].kind = "file"

\* the zip entry readers f.Open() returned, one for each buffer made, each
\* closed by rc.Close() after its read, failed or not
EntryReaders(allocs) == [i \in 1..Len(allocs) |-> "rc"]

\* cpio and tar readers: Next fails on damaged data, and after an entry whose
\* data ends before its declared size
NextFails(ar, i) ==
    ar[i].corrupt \/ (i > 1 /\ Len(ar[i - 1].data) < ar[i - 1].size)

\* the list loop taking an error of Next for the end of the entries: the
\* entries read before it are returned
RECURSIVE streamListLoopStopAtError(_, _, _, _, _)
streamListLoopStopAtError(fmt, ar, i, depth, files) ==
    IF i > Len(ar) THEN [err |-> "none", files |-> files]
    ELSE IF NextFails(ar, i) THEN [err |-> "none", files |-> files]
    ELSE IF DepthSkips(ar[i].name, depth)
       THEN streamListLoopStopAtError(fmt, ar, i + 1, depth, files)
    ELSE streamListLoopStopAtError(fmt, ar, i + 1, depth,
            Append(files, FileInfo(ar[i].name, ar[i].size,
                                   Permissions(fmt, ar[i].mode))))

\* the for loop of cpioList, tarGzList, tarBz2List and tarXzList from record i
\* on, files being the entries appended so far
RECURSIVE streamListLoop(_, _, _, _, _)
streamListLoop(fmt, ar, i, depth, files) ==
    IF i > Len(ar) THEN [err |-> "none", files |-> files]
    ELSE IF NextFails(ar, i) THEN [err |-> "Malformed", files |-> << >>]
    ELSE IF DepthSkips(ar[i].name, depth)
       THEN streamListLoop(fmt, ar, i + 1, depth, files)
    ELSE streamListLoop(fmt, ar, i + 1, depth,
            Append(files, FileInfo(ar[i].name, ar[i].size,
                                   Permissions(fmt, ar[i].mode))))

streamList(fsys, workdir, fmt, path, depth) ==
    Once(securePath(fsys, workdir, path), LAMBDA sp :
       IF sp.err # "none"
          THEN [err |-> sp.err, files |-> << >>, opened |-> << >>,
                handles |-> NoHandles]
       ELSE Once(OpenArchive(fsys, fmt, sp.path), LAMBDA file :
          IF file.err # "none"
             THEN [err |-> file.err, files |-> << >>, opened |-> << >>,
                   handles |-> IF OpensFile(fsys, sp.path)
                               THEN Deferred(<< "file" >>, << >>) ELSE NoHandles]
          ELSE streamListLoop(fmt, file.ar, 1, depth, << >>)
               @@ [opened |-> << sp.path >>,
                   handles |-> Deferred(Handles(fmt), << >>)]))

cpioList(fsys, workdir, path, depth) == streamList(fsys, workdir, "cpio", path, depth)
tarGzList(fsys, workdir, path, depth) == streamList(fsys, workdir, "targz", path, depth)
tarBz2List(fsys, workdir, path, depth) == streamList(fsys, workdir, "tarbz2", path, depth)
tarXzList(fsys, workdir, path, depth) == streamList(fsys, workdir, "tarxz", path, depth)

\* the for loop of zipList over r.File
RECURSIVE zipListLoop(_, _, _, _)
zipListLoop(ar, i, depth, files) ==
    IF i > Len(ar) THEN [err |-> "none", files |-> files]
    ELSE IF DepthSkips(ar[i].name, depth) THEN zipListLoop(ar, i + 1, depth, files)
    ELSE zipListLoop(ar, i + 1, depth,
            Append(files, FileInfo(ar[i].name, ToInt64(ar[i].size),
                                   Permissions("zip", ar[i].mode))))

\* zip.OpenReader reads the whole directory and fails on damaged data
zipOpenReader(fsys, path) ==
    Once(OpenArchive(fsys, "zip", path), LAMBDA file :
       IF file.err # "none" THEN file
       ELSE IF \E i \in 1..Len(file.ar) : file.ar[i].corrupt
          THEN [err |-> "OpenFailed", ar |-> << >>]
       ELSE file)

zipList(fsys, workdir, path, depth) ==
    Once(securePath(fsys, workdir, path), LAMBDA sp :
       IF sp.err # "none"
          THEN [err |-> sp.err, files |-> << >>, opened |-> << >>,
                handles |-> NoHandles]
       ELSE Once(zipOpenReader(fsys, sp.path), LAMBDA r :
          IF r.err # "none"
             THEN [err |-> r.err, files |-> << >>, opened |-> << >>,
                   handles |-> NoHandles]
          ELSE zipListLoop(r.ar, 1, depth, << >>)
               @@ [opened |-> << sp.path >>,
                   handles |-> Deferred(Handles("zip"), << >>)]))

\* the switch of ListArchiveFiles and ExtractArchiveFiles: the first suffix
\* of the list the path ends with, "" when it ends with none
RECURSIVE FormatFrom(_, _)
FormatFrom(path, i) ==
    IF i > Len(Suffixes) THEN ""
    ELSE IF HasSuffix(path, Suffixes[i].suffix) THEN Suffixes[i].fmt
    ELSE FormatFrom(path, i + 1)

\* the switch with the suffixes compared without regard to case
FormatOfFold(path) ==
    FormatFrom([i \in 1..Len(path) |->
                  CASE path[i] = "Z" -> "z" [] path[i] = "I" -> "i"
                    [] path[i] = "P" -> "p" [] OTHER -> path[i]], 1)

FormatOf(path) == FormatFrom(path, 1)

\* the filter loop with the test "includeMatch || !excludeMatch": a file the
\* include pattern matches is kept whatever the exclude pattern says
RECURSIVE filterLoopIncludeWins(_, _, _, _, _)
filterLoopIncludeWins(files, i, include, exclude, filtered) ==
    IF i > Len(files) THEN [err |-> "none", filtered |-> filtered]
    ELSE Once(IF include # << >> THEN MatchString(include, files[i].name)
              ELSE [err |-> FALSE, matched |-> TRUE], LAMBDA inc :
         IF inc.err THEN [err |-> "InvalidPattern", filtered |-> << >>]
         ELSE Once(IF exclude # << >> THEN MatchString(exclude, files[i].name)
                   ELSE [err |-> FALSE, matched |-> FALSE], LAMBDA exc :
            IF exc.err THEN [err |-> "InvalidPattern", filtered |-> << >>]
            ELSE Once(IF inc.matched \/ ~exc.matched
                      THEN Append(filtered, files[i]) ELSE filtered, LAMBDA kept :
                    filterLoopIncludeWins(files, i + 1, include, exclude, kept))))

\* the filter loop of ListArchiveFiles from file i on: both patterns are
\* compiled for each file, and a pattern that does not compile ends the call
RECURSIVE filterLoop(_, _, _, _, _)
filterLoop(files, i, include, exclude, filtered) ==
    IF i > Len(files) THEN [err |-> "none", filtered |-> filtered]
    ELSE Once(IF include # << >> THEN MatchString(include, files[i].name)
              ELSE [err |-> FALSE, matched |-> TRUE], LAMBDA inc :
         IF inc.err THEN [err |-> "InvalidPattern", filtered |-> << >>]
         ELSE Once(IF exclude # << >> THEN MatchString(exclude, files[i].name)
                   ELSE [err |-> FALSE, matched |-> FALSE], LAMBDA exc :
            IF exc.err THEN [err |-> "InvalidPattern", filtered |-> << >>]
            ELSE Once(IF inc.matched /\ ~exc.matched
                      THEN Append(filtered, files[i]) ELSE filtered, LAMBDA kept :
                    filterLoop(files, i + 1, include, exclude, kept))))

DefaultLimit == 100

NoListing ==
    [total |-> 0, filteredCount |-> 0, displayed |-> 0, files |-> << >>,
     listed |-> << >>, filtered |-> << >>]

\* the switch of ListArchiveFiles on the suffix of the path
listDispatch(fsys, workdir, args) ==
    Once(FormatOf(args.path), LAMBDA fmt :
       (CASE fmt = "cpio" -> cpioList(fsys, workdir, args.path, args.depth)
          [] fmt = "targz" -> tarGzList(fsys, workdir, args.path, args.depth)
          [] fmt = "tarbz2" -> tarBz2List(fsys, workdir, args.path, args.depth)
          [] fmt = "tarxz" -> tarXzList(fsys, workdir, args.path, args.depth)
          [] fmt = "zip" -> zipList(fsys, workdir, args.path, args.depth)
          [] OTHER -> [err |-> "UnsupportedFormat", files |-> << >>, opened |-> << >>,
                       handles |-> NoHandles])
       @@ [reader |-> fmt])

\* the end of ListArchiveFiles with TotalFiles counted after the patterns
listResultTotalAfterPatterns(opened, files, filteredFiles, argLimit) ==
    LET limit == IF argLimit = 0 THEN DefaultLimit ELSE argLimit
        displayedFilesCount ==
            IF Len(filteredFiles) > limit THEN limit ELSE Len(filteredFiles)
    IN  IF displayedFilesCount < 0
           THEN [err |-> "panic", opened |-> opened] @@ NoListing
        ELSE [err |-> "none", opened |-> opened,
              total |-> Len(filteredFiles),
              filteredCount |-> Len(filteredFiles),
              displayed |-> displayedFilesCount,
              files |-> SubSeq(filteredFiles, 1, displayedFilesCount),
              listed |-> files,
              filtered |-> filteredFiles]

\* the end of ListArchiveFiles: the default of the limit, the count of the
\* files displayed and the slice filteredFiles[:displayedFilesCount], which
\* panics when the count is negative
listResult(opened, files, filteredFiles, argLimit) ==
    LET limit == IF argLimit = 0 THEN DefaultLimit ELSE argLimit
        displayedFilesCount ==
            IF Len(filteredFiles) > limit THEN limit ELSE Len(filteredFiles)
    IN  IF displayedFilesCount < 0
           THEN [err |-> "panic", opened |-> opened] @@ NoListing
        ELSE [err |-> "none", opened |-> opened,
              total |-> Len(files),
              filteredCount |-> Len(filteredFiles),
              displayed |-> displayedFilesCount,
              files |-> SubSeq(filteredFiles, 1, displayedFilesCount),
              listed |-> files,
              filtered |-> filteredFiles]

\* Archive.ListArchiveFiles. The result carries, beside the error and the
\* ListArchiveFilesResult, the reader the switch chose, the file the call
\* opened and its locals files (as listed) and filteredFiles (as filtered).
ListArchiveFiles(fsys, workdir, args) ==
    Once(listDispatch(fsys, workdir, args), LAMBDA read :
       (IF read.err # "none"
           THEN [err |-> read.err, opened |-> read.opened] @@ NoListing
        ELSE Once(filterLoop(read.files, 1, args.include, args.exclude, << >>),
                  LAMBDA pass :
           IF pass.err # "none"
              THEN [err |-> pass.err, opened |-> read.opened] @@ NoListing
           ELSE listResult(read.opened, read.files, pass.filtered, args.limit)))
       @@ [reader |-> read.reader, handles |-> read.handles])

\* ------------------------------------------------------------ extraction

ExtractedFile(name, size, perm, content) ==
    [name |-> name, size |-> size, perm |-> perm, content |-> content]

\* the loop over filesToExtract with the buffer made before the size is tested
RECURSIVE streamNamesLoopAllocFirst(_, _, _, _, _, _, _, _)
streamNamesLoopAllocFirst(fmt, e, names, j, maxSize, unread, out, allocs) ==
    IF j > Len(names)
       THEN [err |-> "none", files |-> out, allocs |-> allocs]
    ELSE IF e.name # names[j]
       THEN streamNamesLoopAllocFirst(fmt, e, names, j + 1, maxSize, unread, out, allocs)
    ELSE IF e.size > maxSize
       THEN [err |-> "FileTooLarge", files |-> << >>, allocs |-> Append(allocs, e.size)]
    ELSE IF Len(unread) < e.size
       THEN [err |-> "ReadFailed", files |-> << >>, allocs |-> Append(allocs, e.size)]
    ELSE streamNamesLoopAllocFirst(fmt, e, names, j + 1, maxSize,
            SubSeq(unread, e.size + 1, Len(unread)),
            Append(out, ExtractedFile(e.name, e.size, Permissions(fmt, e.mode),
                                      SubSeq(unread, 1, e.size))),
            Append(allocs, e.size))

\* the loop over filesToExtract returning, beside the error, the files
\* extracted before it
RECURSIVE streamNamesLoopPartial(_, _, _, _, _, _, _, _)
streamNamesLoopPartial(fmt, e, names, j, maxSize, unread, out, allocs) ==
    IF j > Len(names)
       THEN [err |-> "none", files |-> out, allocs |-> allocs]
    ELSE IF e.name # names[j]
       THEN streamNamesLoopPartial(fmt, e, names, j + 1, maxSize, unread, out, allocs)
    ELSE IF e.size > maxSize
       THEN [err |-> "FileTooLarge", files |-> out, allocs |-> allocs]
    ELSE IF Len(unread) < e.size
       THEN [err |-> "ReadFailed", files |-> out, allocs |-> Append(allocs, e.size)]
    ELSE streamNamesLoopPartial(fmt, e, names, j + 1, maxSize,
            SubSeq(unread, e.size + 1, Len(unread)),
            Append(out, ExtractedFile(e.name, e.size, Permissions(fmt, e.mode),
                                      SubSeq(unread, 1, e.size))),
            Append(allocs, e.size))

\* the loop over filesToExtract passing over an entry whose name was
\* extracted before
RECURSIVE streamNamesLoopFirstOnly(_, _, _, _, _, _, _, _)
streamNamesLoopFirstOnly(fmt, e, names, j, maxSize, unread, out, allocs) ==
    IF j > Len(names)
       THEN [err |-> "none", files |-> out, allocs |-> allocs]
    ELSE IF e.name # names[j] \/ \E k \in 1..Len(out) : out[k].name = e.name
       THEN streamNamesLoopFirstOnly(fmt, e, names, j + 1, maxSize, unread, out, allocs)
    ELSE IF e.size > maxSize
       THEN [err |-> "FileTooLarge", files |-> << >>, allocs |-> allocs]
    ELSE IF Len(unread) < e.size
       THEN [err |-> "ReadFailed", files |-> << >>, allocs |-> Append(allocs, e.size)]
    ELSE streamNamesLoopFirstOnly(fmt, e, names, j + 1, maxSize,
            SubSeq(unread, e.size + 1, Len(unread)),
            Append(out, ExtractedFile(e.name, e.size, Permissions(fmt, e.mode),
                                      SubSeq(unread, 1, e.size))),
            Append(allocs, e.size))

\* the loop over filesToExtract taking a requested name for a prefix of the
\* entry's name
RECURSIVE streamNamesLoopPrefix(_, _, _, _, _, _, _, _)
streamNamesLoopPrefix(fmt, e, names, j, maxSize, unread, out, allocs) ==
    IF j > Len(names)
       THEN [err |-> "none", files |-> out, allocs |-> allocs]
    ELSE IF ~HasPrefix(e.name, names[j])
       THEN streamNamesLoopPrefix(fmt, e, names, j + 1, maxSize, unread, out, allocs)
    ELSE IF e.size > maxSize
       THEN [err |-> "FileTooLarge", files |-> << >>, allocs |-> allocs]
    ELSE IF Len(unread) < e.size
       THEN [err |-> "ReadFailed", files |-> << >>, allocs |-> Append(allocs, e.size)]
    ELSE streamNamesLoopPrefix(fmt, e, names, j + 1, maxSize,
            SubSeq(unread, e.size + 1, Len(unread)),
            Append(out, ExtractedFile(e.name, e.size, Permissions(fmt, e.mode),
                                      SubSeq(unread, 1, e.size))),
            Append(allocs, e.size))

\* the loop over filesToExtract with one Read in place of io.ReadFull: the
\* content holds what the first Read returned, one byte at most
RECURSIVE streamNamesLoopShortRead(_, _, _, _, _, _, _, _)
streamNamesLoopShortRead(fmt, e, names, j, maxSize, unread, out, allocs) ==
    IF j > Len(names)
       THEN [err |-> "none", files |-> out, allocs |-> allocs]
    ELSE IF e.name # names[j]
       THEN streamNamesLoopShortRead(fmt, e, names, j + 1, maxSize, unread, out, allocs)
    ELSE IF e.size > maxSize
       THEN [err |-> "FileTooLarge", files |-> << >>, allocs |-> allocs]
    ELSE IF Len(unread) < e.size
       THEN [err |-> "ReadFailed", files |-> << >>, allocs |-> Append(allocs, e.size)]
    ELSE streamNamesLoopShortRead(fmt, e, names, j + 1, maxSize,
            SubSeq(unread, e.size + 1, Len(unread)),
            Append(out, ExtractedFile(e.name, e.size, Permissions(fmt, e.mode),
                                      SubSeq(unread, 1, IF e.size > 1 THEN 1 ELSE e.size))),
            Append(allocs, e.size))

\* the loop over filesToExtract with the size tested before the name: an
\* entry larger than maxSize ends the call whether it is requested or not
RECURSIVE streamNamesLoopSizeFirst(_, _, _, _, _, _, _, _)
streamNamesLoopSizeFirst(fmt, e, names, j, maxSize, unread, out, allocs) ==
    IF e.size > maxSize
       THEN [err |-> "FileTooLarge", files |-> << >>, allocs |-> allocs]
    ELSE IF j > Len(names)
       THEN [err |-> "none", files |-> out, allocs |-> allocs]
    ELSE IF e.name # names[j]
       THEN streamNamesLoopSizeFirst(fmt, e, names, j + 1, maxSize, unread, out, allocs)
    ELSE IF Len(unread) < e.size
       THEN [err |-> "ReadFailed", files |-> << >>, allocs |-> Append(allocs, e.size)]
    ELSE streamNamesLoopSizeFirst(fmt, e, names, j + 1, maxSize,
            SubSeq(unread, e.size + 1, Len(unread)),
            Append(out, ExtractedFile(e.name, e.size, Permissions(fmt, e.mode),
                                      SubSeq(unread, 1, e.size))),
            Append(allocs, e.size))

\* the loop over filesToExtract rejecting an entry of maxSize bytes too
RECURSIVE streamNamesLoopNotStrict(_, _, _, _, _, _, _, _)
streamNamesLoopNotStrict(fmt, e, names, j, maxSize, unread, out, allocs) ==
    IF j > Len(names)
       THEN [err |-> "none", files |-> out, allocs |-> allocs]
    ELSE IF e.name # names[j]
       THEN streamNamesLoopNotStrict(fmt, e, names, j + 1, maxSize, unread, out, allocs)
    ELSE IF e.size >= maxSize
       THEN [err |-> "FileTooLarge", files |-> << >>, allocs |-> allocs]
    ELSE IF Len(unread) < e.size
       THEN [err |-> "ReadFailed", files |-> << >>, allocs |-> Append(allocs, e.size)]
    ELSE streamNamesLoopNotStrict(fmt, e, names, j + 1, maxSize,
            SubSeq(unread, e.size + 1, Len(unread)),
            Append(out, ExtractedFile(e.name, e.size, Permissions(fmt, e.mode),
                                      SubSeq(unread, 1, e.size))),
            Append(allocs, e.size))

\* The loop over filesToExtract for one cpio or tar entry e, from name j on.
\* unread are the bytes of the entry the reader has not handed out yet, out the
\* files extracted so far, allocs the lengths of the buffers made so far.
RECURSIVE streamNamesLoop(_, _, _, _, _, _, _, _)
streamNamesLoop(fmt, e, names, j, maxSize, unread, out, allocs) ==
    IF j > Len(names)
       THEN [err |-> "none", files |-> out, allocs |-> allocs]
    ELSE IF e.name # names[j]
       THEN streamNamesLoop(fmt, e, names, j + 1, maxSize, unread, out, allocs)
    ELSE IF e.size > maxSize
       THEN [err |-> "FileTooLarge", files |-> << >>, allocs |-> allocs]
    ELSE IF Len(unread) < e.size
       THEN [err |-> "ReadFailed", files |-> << >>, allocs |-> Append(allocs, e.size)]
    ELSE streamNamesLoop(fmt, e, names, j + 1, maxSize,
            SubSeq(unread, e.size + 1, Len(unread)),
            Append(out, ExtractedFile(e.name, e.size, Permissions(fmt, e.mode),
                                      SubSeq(unread, 1, e.size))),
            Append(allocs, e.size))

\* the extraction with its two loops exchanged: the outer loop runs over
\* filesToExtract, from name i on, and the files come in the order of the names
RECURSIVE streamExtractLoopByName(_, _, _, _, _, _, _)
streamExtractLoopByName(fmt, ar, i, names, maxSize, out, allocs) ==
    IF i > Len(names) THEN [err |-> "none", files |-> out, allocs |-> allocs]
    ELSE Once(SelectSeq(ar, LAMBDA e : e.name = names[i]), LAMBDA named :
         IF \E k \in 1..Len(named) : named[k].size > maxSize
            THEN [err |-> "FileTooLarge", files |-> << >>, allocs |-> allocs]
         ELSE streamExtractLoopByName(fmt, ar, i + 1, names, maxSize,
                 out \o [k \in 1..Len(named) |->
                           ExtractedFile(named[k].name, named[k].size,
                                         Permissions(fmt, named[k].mode),
                                         SubSeq(named[k].data, 1, named[k].size))],
                 allocs \o [k \in 1..Len(named) |-> named[k].size]))

\* the outer for loop of cpioExtract, tarGzExtract, tarBz2Extract and
\* tarXzExtract from record i on
RECURSIVE streamExtractLoop(_, _, _, _, _, _, _)
streamExtractLoop(fmt, ar, i, names, maxSize, out, allocs) ==
    IF i > Len(ar) THEN [err |-> "none", files |-> out, allocs |-> allocs]
    ELSE IF NextFails(ar, i)
       THEN [err |-> "Malformed", files |-> << >>, allocs |-> allocs]
    ELSE Once(streamNamesLoop(fmt, ar[i], names, 1, maxSize, ar[i].data, out, allocs),
              LAMBDA got :
         IF got.err # "none" THEN got
         ELSE streamExtractLoop(fmt, ar, i + 1, names, maxSize, got.files, got.allocs))

streamExtract(fsys, workdir, maxSize, fmt, path, names) ==
    Once(securePath(fsys, workdir, path), LAMBDA sp :
       IF sp.err # "none"
          THEN [err |-> sp.err, files |-> << >>, allocs |-> << >>, opened |-> << >>,
                handles |-> NoHandles]
       ELSE Once(OpenArchive(fsys, fmt, sp.path), LAMBDA file :
          IF file.err # "none"
             THEN [err |-> file.err, files |-> << >>, allocs |-> << >>,
                   opened |-> << >>,
                   handles |-> IF OpensFile(fsys, sp.path)
                               THEN Deferred(<< "file" >>, << >>) ELSE NoHandles]
          ELSE streamExtractLoop(fmt, file.ar, 1, names, maxSize, << >>, << >>)
               @@ [opened |-> << sp.path >>,
                   handles |-> Deferred(Handles(fmt), << >>)]))

cpioExtract(fsys, workdir, maxSize, path, names) ==
    streamExtract(fsys, workdir, maxSize, "cpio", path, names)
tarGzExtract(fsys, workdir, maxSize, path, names) ==
    streamExtract(fsys, workdir, maxSize, "targz", path, names)
tarBz2Extract(fsys, workdir, maxSize, path, names) ==
    streamExtract(fsys, workdir, maxSize, "tarbz2", path, names)
tarXzExtract(fsys, workdir, maxSize, path, names) ==
    streamExtract(fsys, workdir, maxSize, "tarxz", path, names)

\* The loop over filesToExtract for one zip entry f, from name j on: every
\* match opens a reader of its own on the entry's data.
RECURSIVE zipNamesLoop(_, _, _, _, _, _)
zipNamesLoop(f, names, j, maxSize, out, allocs) ==
    IF j > Len(names)
       THEN [err |-> "none", files |-> out, allocs |-> allocs]
    ELSE IF f.name # names[j]
       THEN zipNamesLoop(f, names, j + 1, maxSize, out, allocs)
    ELSE IF f.size > ToUint64(maxSize)
       THEN [err |-> "FileTooLarge", files |-> << >>, allocs |-> allocs]
    ELSE IF Len(f.data) < f.size
       THEN [err |-> "ReadFailed", files |-> << >>, allocs |-> Append(allocs, f.size)]
    ELSE zipNamesLoop(f, names, j + 1, maxSize,
            Append(out, ExtractedFile(f.name, ToInt64(f.size), Permissions("zip", f.mode),
                                      SubSeq(f.data, 1, f.size))),
            Append(allocs, f.size))

\* the outer for loop of zipExtract over r.File
RECURSIVE zipExtractLoop(_, _, _, _, _, _)
zipExtractLoop(ar, i, names, maxSize, out, allocs) ==
    IF i > Len(ar) THEN [err |-> "none", files |-> out, allocs |-> allocs]
    ELSE Once(zipNamesLoop(ar[i], names, 1, maxSize, out, allocs), LAMBDA got :
         IF got.err # "none" THEN got
         ELSE zipExtractLoop(ar, i + 1, names, maxSize, got.files, got.allocs))

zipExtract(fsys, workdir, maxSize, path, names) ==
    Once(securePath(fsys, workdir, path), LAMBDA sp :
       IF sp.err # "none"
          THEN [err |-> sp.err, files |-> << >>, allocs |-> << >>, opened |-> << >>,
                handles |-> NoHandles]
       ELSE Once(zipOpenReader(fsys, sp.path), LAMBDA r :
          IF r.err # "none"
             THEN [err |-> r.err, files |-> << >>, allocs |-> << >>, opened |-> << >>,
                   handles |-> NoHandles]
          ELSE Once(zipExtractLoop(r.ar, 1, names, maxSize, << >>, << >>), LAMBDA got :
                  got @@ [opened |-> << sp.path >>,
                          handles |-> Deferred(Handles("zip"),
                                               EntryReaders(got.allocs))])))

\* Archive.ExtractArchiveFiles. The result carries, beside the error and the
\* ExtractArchiveFilesResult, the reader the switch chose, the file the call
\* opened and the buffers it made.
ExtractArchiveFiles(fsys, workdir, maxSize, args) ==
    Once(FormatOf(args.path), LAMBDA fmt :
       (CASE fmt = "cpio" -> cpioExtract(fsys, workdir, maxSize, args.path, args.names)
          [] fmt = "targz" -> tarGzExtract(fsys, workdir, maxSize, args.path, args.names)
          [] fmt = "tarbz2" -> tarBz2Extract(fsys, workdir, maxSize, args.path, args.names)
          [] fmt = "tarxz" -> tarXzExtract(fsys, workdir, maxSize, args.path, args.names)
          [] fmt = "zip" -> zipExtract(fsys, workdir, maxSize, args.path, args.names)
          [] OTHER -> [err |-> "UnsupportedFormat", files |-> << >>,
                       allocs |-> << >>, opened |-> << >>, handles |-> NoHandles])
       @@ [reader |-> fmt])

\* ------------------------------------------------------------ the state machine

\* Archive.maxSize as New sets it (100*1024 in the code), scaled down to the
\* sizes of the entries of the model
MaxSize == 2

VARIABLES
    fs,        \* the file system: path -> directory, file or symbolic link
    Workdir,   \* Archive.Workdir
    maxSize,   \* Archive.maxSize
    call,      \* the call in progress: its operation and arguments
    ret,       \* what the call returns
    accepted,  \* replaceable paths an earlier call's securePath accepted
    threads    \* the calls that run side by side, each with its position and locals

vars == << fs, Workdir, maxSize, call, ret, accepted, threads >>

\* the working directory given to New
Workdirs == { PathRoot }

\* the paths an outside process replaces by a symbolic link, and the targets
Replaceable == { PathZip }
LinkTargets == { PathOutZip, PathSiblingZip }

\* the arguments of the calls
Paths ==
    { ArchiveIn(PathRoot, f) : f \in Formats }
    \cup { PathSiblingZip, PathOutZip, PathText, PathOutText, PathMissing,
           PathTraversal, PathRelative, PathViaLink, PathUpper, PathBroken,
           PathBrokenZip }
Depths == -1..MaxDepth
Limits == -1..MaxLimit
Patterns == { PatNone, PatAll, PatEndA, PatBad }
RequestNames == { NameA, NameB, NameC, NameX, NameTt }
NameLists == UNION { [1..n -> RequestNames] : n \in 0..MaxNames }

NoCall ==
    [op |-> "none", path |-> << >>, depth |-> 0, limit |-> 0,
     include |-> << >>, exclude |-> << >>, names |-> << >>]

NoReturn ==
    [err |-> "none", reader |-> "", opened |-> << >>, handles |-> NoHandles,
     allocs |-> << >>, extracted |-> << >>] @@ NoListing

\* the goroutines that serve calls side by side
Threads == { "t1", "t2" }

\* a goroutine between two calls: pc is its position, args the arguments of
\* its call, reader the format the switch chose, path what securePath
\* returned, ar the records of the file it holds open, i the record its loop
\* is at, files and allocs the locals of the loop, opened the canonical path
\* of the file at the moment it was opened, result what the call returns
Idle ==
    [pc |-> "idle", args |-> NoCall, reader |-> "", path |-> << >>, ar |-> << >>,
     i |-> 0, files |-> << >>, allocs |-> << >>, opened |-> << >>,
     result |-> [err |-> "none"]]

NoThreads == [t \in Threads |-> Idle]

Init ==
    /\ \E v \in Variants : fs = InitialFs(v)
    /\ \E w \in Workdirs : Workdir = New(w)
    /\ maxSize = MaxSize
    /\ call = NoCall
    /\ ret = NoReturn
    /\ accepted = {}
    /\ threads = NoThreads

\* a caller invokes ListArchiveFiles
List(path, depth, limit, include, exclude) ==
    /\ call.op = "none"
    /\ call' = [NoCall EXCEPT !.op = "list", !.path = path, !.depth = depth,
                              !.limit = limit, !.include = include, !.exclude = exclude]
    /\ \E got \in { ListArchiveFiles(fs, Workdir, call') } : ret' = got @@ NoReturn
    /\ UNCHANGED << fs, Workdir, maxSize, accepted, threads >>

\* an ExtractArchiveFiles that sets maxSize to 0 once an entry was too large
ExtractLoweringLimit(path, names) ==
    /\ call.op = "none"
    /\ call' = [NoCall EXCEPT !.op = "extract", !.path = path, !.names = names]
    /\ \E got \in { ExtractArchiveFiles(fs, Workdir, maxSize, call') } :
          /\ ret' = [err |-> got.err, reader |-> got.reader, opened |-> got.opened,
                     handles |-> got.handles, allocs |-> got.allocs,
                     extracted |-> got.files] @@ NoListing
          /\ maxSize' = IF got.err = "FileTooLarge" THEN 0 ELSE maxSize
    /\ UNCHANGED << fs, Workdir, accepted, threads >>

\* a caller invokes ExtractArchiveFiles
Extract(path, names) ==
    /\ call.op = "none"
    /\ call' = [NoCall EXCEPT !.op = "extract", !.path = path, !.names = names]
    /\ \E got \in { ExtractArchiveFiles(fs, Workdir, maxSize, call') } :
          ret' = [err |-> got.err, reader |-> got.reader, opened |-> got.opened,
                  handles |-> got.handles, allocs |-> got.allocs,
                  extracted |-> got.files] @@ NoListing
    /\ UNCHANGED << fs, Workdir, maxSize, accepted, threads >>

\* the caller takes the result
Return ==
    /\ call.op # "none"
    /\ accepted' = IF call.path \in Replaceable /\ ret.opened # << >>
                   THEN accepted \cup { call.path } ELSE accepted
    /\ call' = NoCall
    /\ ret' = NoReturn
    /\ UNCHANGED << fs, Workdir, maxSize, threads >>

\* the name another process moves a file to before it puts a link in its place
Saved(path) == path \o << "~" >>

\* another process moves a file away and puts a symbolic link in its place
ReplaceBySymlink(path, target) ==
    /\ call.op = "none"
    /\ path \in DOMAIN fs
    /\ fs[path].kind = "file"
    /\ fs' = (path :> Link(target)) @@ (Saved(path) :> fs[path]) @@ fs
    /\ UNCHANGED << Workdir, maxSize, call, ret, accepted, threads >>

\* the process removes the link and moves the file back
RestoreFile(path) ==
    /\ call.op = "none"
    /\ path \in DOMAIN fs
    /\ fs[path].kind = "link"
    /\ Saved(path) \in DOMAIN fs
    /\ fs' = [p \in DOMAIN fs \ { Saved(path) } |->
                IF p = path THEN fs[Saved(path)] ELSE fs[p]]
    /\ UNCHANGED << Workdir, maxSize, call, ret, accepted, threads >>

Next ==
    \/ \E path \in Paths, depth \in Depths, limit \in Limits,
          include \in Patterns, exclude \in Patterns :
          List(path, depth, limit, include, exclude)
    \/ \E path \in Paths, names \in NameLists : Extract(path, names)
    \/ Return
    \/ \E path \in Replaceable, target \in LinkTargets : ReplaceBySymlink(path, target)
    \/ \E path \in Replaceable : RestoreFile(path)

Spec == Init /\ [][Next]_vars

\* the Archive made by New with a working directory that is a symbolic link
\* to the directory of the archives
InitLinkedRoot ==
    /\ fs = InitialFs("mixed")
    /\ Workdir = New(PathR)
    /\ maxSize = MaxSize
    /\ call = NoCall
    /\ ret = NoReturn
    /\ accepted = {}
    /\ threads = NoThreads

SpecLinkedRoot == InitLinkedRoot /\ [][Next]_vars

\* An Archive whose maxSize was set to any value an int64 holds, as the tests
\* of the package set the field, with one entry of one declared size stored in
\* each of the five formats.
SizedContent(size) == << Entry(NameA, size, 420, [i \in 1..size |-> 1]) >>

SizedFs(size) ==
    [p \in { PathW, PathRoot } |-> Dir]
    @@ [p \in { ArchiveIn(PathRoot, f) : f \in Formats } |->
          File(CHOOSE f \in Formats : p = ArchiveIn(PathRoot, f), SizedContent(size))]

InitSizeLimit ==
    /\ \E size \in 0..MaxInt64 : fs = SizedFs(size)
    /\ Workdir = New(PathRoot)
    /\ maxSize \in (0 - MaxInt64 - 1)..MaxInt64
    /\ call = NoCall
    /\ ret = NoReturn
    /\ accepted = {}
    /\ threads = NoThreads

NextSizeLimit ==
    \/ \E f \in Formats : Extract(ArchiveIn(PathRoot, f), << NameA >>)
    \/ Return

SpecSizeLimit == InitSizeLimit /\ [][NextSizeLimit]_vars

\* ------------------------------------------------------------ calls step by step

\* The same calls with their steps apart: the switch and securePath, the
\* opening of the file, each turn of the loop over the entries, and the end of
\* the call. Between two steps of a call other calls and other processes run.

\* what a ListArchiveFiles call returns: the error and ListArchiveFilesResult
ListOutcome(r) ==
    [err |-> r.err, total |-> r.total, filteredCount |-> r.filteredCount,
     displayed |-> r.displayed, files |-> r.files]

\* what an ExtractArchiveFiles call returns: the error and the files
ExtractOutcome(r) == [err |-> r.err, files |-> r.files]

\* the return of a call that failed with err
Failed(op, err) ==
    IF op = "list" THEN ListOutcome([err |-> err] @@ NoListing)
    ELSE ExtractOutcome([err |-> err, files |-> << >>])

\* os.Open and zip.OpenReader on the path securePath returned: the symbolic
\* links of the path are followed as they are at the moment of the call
osOpen(fsys, fmt, path) ==
    Once(EvalSymlinks(fsys, path), LAMBDA at :
       IF at.err # "none" THEN [err |-> "OpenFailed", ar |-> << >>, opened |-> << >>]
       ELSE Once(IF fmt = "zip" THEN zipOpenReader(fsys, at.path)
                 ELSE OpenArchive(fsys, fmt, at.path), LAMBDA file :
            file @@ [opened |-> IF OpensFile(fsys, at.path)
                                THEN << at.path >> ELSE << >>]))

\* one turn of the loop of a list reader at the record e
listEntry(fmt, e, depth, files) ==
    IF DepthSkips(e.name, depth) THEN files
    ELSE Append(files, FileInfo(e.name,
                                IF fmt = "zip" THEN ToInt64(e.size) ELSE e.size,
                                Permissions(fmt, e.mode)))

\* one turn of the outer loop of an extractor at the record e
extractEntry(fmt, e, names, limit, files, allocs) ==
    IF fmt = "zip" THEN zipNamesLoop(e, names, 1, limit, files, allocs)
    ELSE streamNamesLoop(fmt, e, names, 1, limit, e.data, files, allocs)

\* the calls the goroutines make
ListCall(path, depth, limit, include, exclude) ==
    [NoCall EXCEPT !.op = "list", !.path = path, !.depth = depth,
                   !.limit = limit, !.include = include, !.exclude = exclude]

ExtractCall(path, names) ==
    [NoCall EXCEPT !.op = "extract", !.path = path, !.names = names]

ThreadCalls ==
    { ListCall(ArchiveIn(PathRoot, "targz"), 0, 0, PatNone, PatNone),
      ListCall(ArchiveIn(PathRoot, "tarbz2"), 2, 1, PatEndA, PatNone),
      ListCall(PathZip, 0, 0, PatNone, PatEndA),
      ListCall(PathOutZip, 0, 0, PatNone, PatNone),
      ExtractCall(ArchiveIn(PathRoot, "cpio"), << NameA >>),
      ExtractCall(ArchiveIn(PathRoot, "tarxz"), << NameC, NameX >>),
      ExtractCall(PathZip, << NameB, NameA >>),
      ExtractCall(PathText, << NameA >>) }

\* the goroutine with its call ended
Done(t, result) == [threads EXCEPT ![t].pc = "done", ![t].result = result]

\* a goroutine takes a call
Invoke(t, args) ==
    /\ threads[t].pc = "idle"
    /\ threads' = [threads EXCEPT ![t] = [Idle EXCEPT !.pc = "called", !.args = args]]
    /\ UNCHANGED << fs, Workdir, maxSize, call, ret, accepted >>

\* the switch on the suffix, and securePath at the head of the reader
Guard(t) ==
    /\ threads[t].pc = "called"
    /\ \E fmt \in { FormatOf(threads[t].args.path) } :
          IF fmt = ""
             THEN threads' = Done(t, Failed(threads[t].args.op, "UnsupportedFormat"))
          ELSE \E sp \in { securePath(fs, Workdir, threads[t].args.path) } :
                  IF sp.err # "none"
                     THEN threads' = Done(t, Failed(threads[t].args.op, sp.err))
                  ELSE threads' = [threads EXCEPT ![t].pc = "checked",
                                                  ![t].reader = fmt,
                                                  ![t].path = sp.path]
    /\ UNCHANGED << fs, Workdir, maxSize, call, ret, accepted >>

\* os.Open, or zip.OpenReader, on the path securePath returned
Open(t) ==
    /\ threads[t].pc = "checked"
    /\ \E file \in { osOpen(fs, threads[t].reader, threads[t].path) } :
          IF file.err # "none"
             THEN threads' = [Done(t, Failed(threads[t].args.op, file.err))
                                 EXCEPT ![t].opened = file.opened]
          ELSE threads' = [threads EXCEPT ![t].pc = "reading",
                                          ![t].ar = file.ar,
                                          ![t].i = 1,
                                          ![t].opened = file.opened]
    /\ UNCHANGED << fs, Workdir, maxSize, call, ret, accepted >>

\* a turn of the loop that answers an error of Next by starting the archive
\* over
ReadEntryRetry(t) ==
    /\ threads[t].pc = "reading"
    /\ threads[t].i <= Len(threads[t].ar)
    /\ LET th == threads[t]
           e == th.ar[th.i]
       IN  IF th.reader # "zip" /\ NextFails(th.ar, th.i)
              THEN threads' = [threads EXCEPT ![t].i = 1, ![t].files = << >>,
                                              ![t].allocs = << >>]
           ELSE IF th.args.op = "list"
              THEN threads' = [threads EXCEPT
                                 ![t].i = th.i + 1,
                                 ![t].files = listEntry(th.reader, e, th.args.depth,
                                                        th.files)]
           ELSE \E got \in { extractEntry(th.reader, e, th.args.names, maxSize,
                                          th.files, th.allocs) } :
                   IF got.err # "none"
                      THEN threads' = Done(t, Failed("extract", got.err))
                   ELSE threads' = [threads EXCEPT ![t].i = th.i + 1,
                                                   ![t].files = got.files,
                                                   ![t].allocs = got.allocs]
    /\ UNCHANGED << fs, Workdir, maxSize, call, ret, accepted >>

\* a turn of the loop with the slice of the files kept in the Archive, one
\* for all its calls: what a call appends shows in the calls beside it
ReadEntryShared(t) ==
    /\ threads[t].pc = "reading"
    /\ threads[t].i <= Len(threads[t].ar)
    /\ LET th == threads[t]
           e == th.ar[th.i]
           share(files) ==
              [u \in Threads |->
                 IF u = t THEN [th EXCEPT !.i = th.i + 1, !.files = files]
                 ELSE IF threads[u].pc = "reading"
                    THEN [threads[u] EXCEPT !.files = files]
                 ELSE threads[u]]
       IN  IF th.reader # "zip" /\ NextFails(th.ar, th.i)
              THEN threads' = Done(t, Failed(th.args.op, "Malformed"))
           ELSE IF th.args.op = "list"
              THEN threads' = share(listEntry(th.reader, e, th.args.depth, th.files))
           ELSE \E got \in { extractEntry(th.reader, e, th.args.names, maxSize,
                                          th.files, th.allocs) } :
                   IF got.err # "none"
                      THEN threads' = Done(t, Failed("extract", got.err))
                   ELSE threads' = share(got.files)
    /\ UNCHANGED << fs, Workdir, maxSize, call, ret, accepted >>

\* one turn of the loop over the entries: reader.Next (for zip the next of
\* r.File), then the depth test and append of a list reader, or the loop over
\* filesToExtract of an extractor
ReadEntry(t) ==
    /\ threads[t].pc = "reading"
    /\ threads[t].i <= Len(threads[t].ar)
    /\ LET th == threads[t]
           e == th.ar[th.i]
       IN  IF th.reader # "zip" /\ NextFails(th.ar, th.i)
              THEN threads' = Done(t, Failed(th.args.op, "Malformed"))
           ELSE IF th.args.op = "list"
              THEN threads' = [threads EXCEPT
                                 ![t].i = th.i + 1,
                                 ![t].files = listEntry(th.reader, e, th.args.depth,
                                                        th.files)]
           ELSE \E got \in { extractEntry(th.reader, e, th.args.names, maxSize,
                                          th.files, th.allocs) } :
                   IF got.err # "none"
                      THEN threads' = Done(t, Failed("extract", got.err))
                   ELSE threads' = [threads EXCEPT ![t].i = th.i + 1,
                                                   ![t].files = got.files,
                                                   ![t].allocs = got.allocs]
    /\ UNCHANGED << fs, Workdir, maxSize, call, ret, accepted >>

\* the end of the entries: the reader returns its files; ListArchiveFiles
\* filters and counts them, ExtractArchiveFiles returns them
Finish(t) ==
    /\ threads[t].pc = "reading"
    /\ threads[t].i > Len(threads[t].ar)
    /\ LET th == threads[t]
       IN  IF th.args.op = "extract"
              THEN threads' = Done(t, ExtractOutcome([err |-> "none", files |-> th.files]))
           ELSE \E pass \in { filterLoop(th.files, 1, th.args.include,
                                         th.args.exclude, << >>) } :
                   IF pass.err # "none"
                      THEN threads' = Done(t, Failed("list", pass.err))
                   ELSE threads' =
                           Done(t, ListOutcome(listResult(th.opened, th.files,
                                                          pass.filtered, th.args.limit)))
    /\ UNCHANGED << fs, Workdir, maxSize, call, ret, accepted >>

\* the caller takes the result, and the goroutine is free for another call
Deliver(t) ==
    /\ threads[t].pc = "done"
    /\ threads' = [threads EXCEPT ![t] = Idle]
    /\ UNCHANGED << fs, Workdir, maxSize, call, ret, accepted >>

\* the steps of a call once it is taken
Advance(t) == Guard(t) \/ Open(t) \/ ReadEntry(t) \/ Finish(t)

\* two goroutines serve calls on one Archive; the file system stays as it is.
\* The Go scheduler runs every goroutine that can take a step.
NextThreads ==
    \E t \in Threads :
       \/ \E args \in ThreadCalls : Invoke(t, args)
       \/ Guard(t)
       \/ Open(t)
       \/ ReadEntry(t)
       \/ Finish(t)
       \/ Deliver(t)

SpecThreads ==
    Init /\ [][NextThreads]_vars /\ \A t \in Threads : WF_vars(Advance(t))

\* one goroutine serves calls while another process replaces an archive of
\* the working directory by a symbolic link to a file outside, and puts it back
NextRace ==
    \/ \E args \in ThreadCalls : Invoke("t1", args)
    \/ Guard("t1")
    \/ Open("t1")
    \/ ReadEntry("t1")
    \/ Finish("t1")
    \/ Deliver("t1")
    \/ ReplaceBySymlink(PathZip, PathOutZip)
    \/ RestoreFile(PathZip)

SpecRace == Init /\ [][NextRace]_vars

\* ------------------------------------------------------------ properties

\* path is root itself or lies below it
IsDescendant(path, root) == path = root \/ HasPrefix(path, root \o << "/" >>)

\* the archive the call in progress opened, as the file system holds it
OpenedArchive == fs[ret.opened[1]].ar

\* the call in progress is a ListArchiveFiles call that opened its archive
\* and read all of it
ListedArchive ==
    /\ call.op = "list"
    /\ ret.opened # << >>
    /\ ret.err # "Malformed"

\* the names of a sequence of entries or files
NamesOf(files) == [i \in 1..Len(files) |-> files[i].name]

\* C1: securePath accepts only the working directory and what lies below it,
\* so every file a list or extract call opens is the working directory or a
\* descendant of it; a file in a directory beside it whose path starts with
\* the same characters is not opened.
C1_OpenedInsideRoot ==
    \A i \in 1..Len(ret.opened) : IsDescendant(ret.opened[i], Workdir)

\* C2: a call on a path that an earlier call accepted and that has since been
\* replaced by a symbolic link to a target outside the working directory
\* fails with OutsideSandbox and opens no file.
C2_ReplacedByLinkRejected ==
    ( /\ call.op # "none"
      /\ call.path \in accepted
      /\ fs[call.path].kind = "link"
      /\ ~IsDescendant(fs[call.path].target, Workdir) )
    => (ret.err = "OutsideSandbox" /\ ret.opened = << >>)

\* C3: every file an extract call returns has a size of at most maxSize, and
\* every buffer the call made was for a size of at most maxSize: the size is
\* tested before the buffer is made.
C3_SizeWithinLimit ==
    call.op = "extract" =>
       /\ \A i \in 1..Len(ret.extracted) : ret.extracted[i].size <= maxSize
       /\ \A i \in 1..Len(ret.allocs) : ret.allocs[i] <= maxSize

\* C3 witness: an extract call that read one requested entry and then met a
\* requested entry larger than maxSize, for which it made no buffer
C3_Witness ==
    /\ call.op = "extract"
    /\ ret.err = "FileTooLarge"
    /\ Len(ret.allocs) = 1
    /\ \E i \in 1..Len(OpenedArchive) :
          OpenedArchive[i].name \in { call.names[j] : j \in 1..Len(call.names) }
          /\ OpenedArchive[i].size > maxSize

\* C4: an extract call that opened an archive holding a requested entry whose
\* declared size exceeds maxSize, or whose data end before that size, returns
\* an error, and an extract call that returns an error returns no file.
C4_NoPartialResult ==
    call.op = "extract" =>
       /\ ( /\ ret.opened # << >>
            /\ \E i \in 1..Len(OpenedArchive) :
                  /\ OpenedArchive[i].name \in { call.names[j] : j \in 1..Len(call.names) }
                  /\ \/ OpenedArchive[i].size > maxSize
                     \/ Len(OpenedArchive[i].data) < OpenedArchive[i].size )
          => ret.err # "none"
       /\ ret.err # "none" => ret.extracted = << >>

\* C4 witness: an extract call that read a requested entry in full, then
\* failed to read a later requested entry, and returned no file
C4_Witness ==
    /\ call.op = "extract"
    /\ ret.err = "ReadFailed"
    /\ Len(ret.allocs) = 2
    /\ ret.allocs[1] > 0
    /\ ret.extracted = << >>

\* C5: a ListArchiveFiles call that read its archive, with patterns that
\* compile, returns a result with total >= filtered >= displayed >= 0 and as
\* many files as displayed, whatever the depth and the limit.
C5_CountsOrdered ==
    (ListedArchive /\ Compiles(call.include) /\ Compiles(call.exclude))
    => /\ ret.err = "none"
       /\ ret.total >= ret.filteredCount
       /\ ret.filteredCount >= ret.displayed
       /\ ret.displayed >= 0
       /\ Len(ret.files) = ret.displayed

\* C6: the result of a ListArchiveFiles call has displayed = min(filtered, L),
\* L being the limit, or 100 for a limit of 0, and its files are the first
\* displayed entries of the filtered sequence, whatever the limit.
C6_DisplayedIsMinimum ==
    (ListedArchive /\ Compiles(call.include) /\ Compiles(call.exclude))
    => LET L == IF call.limit = 0 THEN 100 ELSE call.limit
       IN  /\ ret.err = "none"
           /\ ret.displayed = IF ret.filteredCount < L THEN ret.filteredCount ELSE L
           /\ ret.files = SubSeq(ret.filtered, 1, ret.displayed)

\* the segments of a name between its first and its last character that is
\* not a "/": one more than the "/" between the two (1 for a name of "/" only)
SegmentCount(name) ==
    LET inner == { i \in 1..Len(name) : name[i] # "/" }
    IN  1 + Cardinality({ i \in 1..Len(name) :
                            /\ name[i] = "/"
                            /\ \E a, b \in inner : a < i /\ i < b })

\* the entries of an archive a list reader keeps at depth d
KeptAtDepth(ar, d) == SelectSeq(ar, LAMBDA e : d = 0 \/ SegmentCount(e.name) <= d)

\* C7: with depth d > 0 a list reader keeps exactly the entries whose name has
\* at most d segments, in the order of the archive; with depth 0 it keeps all.
C7_DepthKeepsShallowEntries ==
    (ListedArchive /\ ret.err = "none" /\ call.depth >= 0)
    => NamesOf(ret.listed) = NamesOf(KeptAtDepth(OpenedArchive, call.depth))

\* C7 witness: a listing with a depth above 0 that kept some entries of its
\* archive and dropped others
C7_Witness ==
    /\ ListedArchive
    /\ ret.err = "none"
    /\ call.depth > 0
    /\ ret.total > 0
    /\ ret.total < Len(OpenedArchive)

\* C8: a ListArchiveFiles call that read its archive and has an include or
\* exclude pattern that is not empty and does not compile fails with
\* InvalidPattern, also when the archive or the depth filter leaves no entry.
C8_InvalidPatternFails ==
    ( /\ ListedArchive
      /\ \/ call.include # << >> /\ ~Compiles(call.include)
         \/ call.exclude # << >> /\ ~Compiles(call.exclude) )
    => ret.err = "InvalidPattern"

\* name is matched by the pattern, a regular expression that compiles
Matches(pattern, name) == MatchString(pattern, name).matched

\* C9: the filtered sequence of a listing is the sequence of the listed
\* (depth-filtered) files, in their order, that the include pattern matches,
\* or whose include pattern is empty, and that no non-empty exclude pattern
\* matches; filteredFiles is its length.
C9_FilteredIsSubsequence ==
    (ListedArchive /\ ret.err = "none")
    => /\ ret.filtered =
            SelectSeq(ret.listed, LAMBDA f :
               /\ call.include = << >> \/ Matches(call.include, f.name)
               /\ ~(call.exclude # << >> /\ Matches(call.exclude, f.name)))
       /\ ret.filteredCount = Len(ret.filtered)

\* C9 witness: a listing that dropped a file both patterns match and kept
\* another file
C9_Witness ==
    /\ ListedArchive
    /\ ret.err = "none"
    /\ call.include # << >>
    /\ call.exclude # << >>
    /\ ret.filteredCount > 0
    /\ \E i \in 1..Len(ret.listed) :
          /\ Matches(call.include, ret.listed[i].name)
          /\ Matches(call.exclude, ret.listed[i].name)
          /\ \A j \in 1..Len(ret.filtered) : ret.filtered[j] # ret.listed[i]

\* C10: a listing with the include pattern ".*" has the filtered sequence of
\* the same call without include pattern, and a listing with the exclude
\* pattern ".*" has filteredFiles = 0 and no files.
C10_MatchAllPatterns ==
    (ListedArchive /\ ret.err = "none")
    => /\ call.include = PatAll =>
            ret.filtered =
               ListArchiveFiles(fs, Workdir, [call EXCEPT !.include = << >>]).filtered
       /\ call.exclude = PatAll =>
            ret.filteredCount = 0 /\ ret.files = << >>

\* C10 witness: a listing of an archive with entries under the exclude
\* pattern ".*"
C10_Witness ==
    /\ ListedArchive
    /\ ret.err = "none"
    /\ call.exclude = PatAll
    /\ ret.total > 0
    /\ ret.filteredCount = 0

\* C11: totalFiles is the number of entries the depth filter keeps, and it is
\* the totalFiles of the listing of the same archive at the same depth with
\* no pattern and the default limit, whatever the patterns and the limit.
C11_TotalIgnoresPatternsAndLimit ==
    (ListedArchive /\ ret.err = "none")
    => /\ ret.total =
            Len(KeptAtDepth(OpenedArchive, IF call.depth < 0 THEN 0 ELSE call.depth))
       /\ ret.total =
            ListArchiveFiles(fs, Workdir,
               [call EXCEPT !.include = << >>, !.exclude = << >>, !.limit = 0]).total

\* C11 witness: a listing whose patterns dropped some of the listed files and
\* whose limit cut the rest short
C11_Witness ==
    /\ ListedArchive
    /\ ret.err = "none"
    /\ call.include # << >> \/ call.exclude # << >>
    /\ ret.displayed < ret.filteredCount
    /\ ret.filteredCount < ret.total

\* the call in progress is an ExtractArchiveFiles call that opened its archive
ExtractedArchive == call.op = "extract" /\ ret.opened # << >>

\* the names the call in progress requests
Requested == { call.names[j] : j \in 1..Len(call.names) }

\* the entries of the opened archive that carry a requested name, in the
\* order of the archive
RequestedEntries == SelectSeq(OpenedArchive, LAMBDA e : e.name \in Requested)

\* no entry of the opened archive is damaged or shorter than it declares
Intact ==
    \A i \in 1..Len(OpenedArchive) :
       ~OpenedArchive[i].corrupt /\ Len(OpenedArchive[i].data) >= OpenedArchive[i].size

\* every requested entry of the opened archive is within maxSize
RequestedFit ==
    \A i \in 1..Len(RequestedEntries) : RequestedEntries[i].size <= maxSize

\* no name is requested twice
NoRepeat == \A j, k \in 1..Len(call.names) : call.names[j] = call.names[k] => j = k

\* how many elements of a sequence of entries or files carry the name
CountNamed(files, name) == Cardinality({ i \in 1..Len(files) : files[i].name = name })

\* C12: an extract call that requests a name twice, on an intact archive that
\* has an entry of that name and whose requested entries are within maxSize,
\* succeeds and returns each requested entry once per repetition of its name,
\* in each of the five formats.
C12_RepeatedNameExtractsTwice ==
    ( /\ ExtractedArchive
      /\ Intact
      /\ RequestedFit
      /\ \E j, k \in 1..Len(call.names) :
            /\ j < k
            /\ call.names[j] = call.names[k]
            /\ CountNamed(OpenedArchive, call.names[j]) > 0 )
    => /\ ret.err = "none"
       /\ \A n \in Requested :
             CountNamed(ret.extracted, n) =
                Cardinality({ j \in 1..Len(call.names) : call.names[j] = n })
                   * CountNamed(OpenedArchive, n)

\* C13: an extract call that requests no name twice, on an intact archive,
\* succeeds exactly when each requested entry is within maxSize by its own
\* declared size, and then returns one file per requested entry of the
\* archive, in the order of the archive, each with its own size and content.
C13_OneFilePerOccurrence ==
    (ExtractedArchive /\ Intact /\ NoRepeat)
    => /\ ret.err = "none" <=> RequestedFit
       /\ ret.err = "none" =>
            /\ Len(ret.extracted) = Len(RequestedEntries)
            /\ \A i \in 1..Len(RequestedEntries) :
                  /\ ret.extracted[i].name = RequestedEntries[i].name
                  /\ ret.extracted[i].size = RequestedEntries[i].size
                  /\ ret.extracted[i].content = RequestedEntries[i].data

\* C13 witness: an extract call with one requested name that returned two
\* files of that name with different contents
C13_Witness ==
    /\ ExtractedArchive
    /\ ret.err = "none"
    /\ Len(call.names) = 1
    /\ Len(ret.extracted) = 2
    /\ ret.extracted[1].name = ret.extracted[2].name
    /\ ret.extracted[1].content # ret.extracted[2].content

\* C14: on an intact archive an extract call whose names match no entry
\* succeeds with no file, a requested name without entry is no error, and
\* the files of a result carry exactly the requested names that are names of
\* entries, compared character for character.
C14_UnmatchedNamesOmitted ==
    ExtractedArchive
    => /\ (Intact /\ RequestedEntries = << >>)
            => (ret.err = "none" /\ ret.extracted = << >>)
       /\ (Intact /\ RequestedFit /\ NoRepeat) => ret.err = "none"
       /\ ret.err = "none"
            => { ret.extracted[i].name : i \in 1..Len(ret.extracted) }
               = { n \in Requested : CountNamed(OpenedArchive, n) > 0 }

\* C14 witness: an extract call that requested a name with an entry and a
\* name that is a prefix of an entry's name, and returned only the first
C14_Witness ==
    /\ ExtractedArchive
    /\ ret.err = "none"
    /\ ret.extracted # << >>
    /\ \E j \in 1..Len(call.names) :
          /\ CountNamed(OpenedArchive, call.names[j]) = 0
          /\ \E i \in 1..Len(OpenedArchive) :
                HasPrefix(OpenedArchive[i].name, call.names[j])

\* C15: every file an extract call returns has the bytes the archive stores
\* for an entry of its name as content, that entry's declared size as size,
\* and a content as long as its size.
C15_ContentRoundTrip ==
    (ExtractedArchive /\ ret.err = "none")
    => \A k \in 1..Len(ret.extracted) :
          /\ Len(ret.extracted[k].content) = ret.extracted[k].size
          /\ \E i \in 1..Len(OpenedArchive) :
                /\ OpenedArchive[i].name = ret.extracted[k].name
                /\ OpenedArchive[i].size = ret.extracted[k].size
                /\ OpenedArchive[i].data = ret.extracted[k].content

\* C15 witness: an extract call that returned a file of more than one byte
C15_Witness ==
    /\ ExtractedArchive
    /\ ret.err = "none"
    /\ \E k \in 1..Len(ret.extracted) : ret.extracted[k].size > 1

\* the last characters of the path are the characters given
EndsWith(path, chars) ==
    /\ Len(path) >= Len(chars)
    /\ \A i \in 1..Len(chars) : path[Len(path) - Len(chars) + i] = chars[i]

\* the reader the suffix of a path stands for, "" for no known suffix
ReaderFor(path) ==
    IF EndsWith(path, << ".", "c", "p", "i", "o" >>) THEN "cpio"
    ELSE IF EndsWith(path, << ".", "t", "a", "r", ".", "g", "z" >>) THEN "targz"
    ELSE IF EndsWith(path, << ".", "t", "a", "r", ".", "b", "z", "2" >>) THEN "tarbz2"
    ELSE IF EndsWith(path, << ".", "t", "a", "r", ".", "x", "z" >>) THEN "tarxz"
    ELSE IF EndsWith(path, << ".", "z", "i", "p" >>) THEN "zip"
    ELSE ""

\* C16: list and extract calls choose their reader by the suffix of the path
\* alone, compared with regard to case; a path with none of the five suffixes
\* fails with UnsupportedFormat and opens no file; and the other operation
\* chooses the same reader for the path.
C16_ReaderBySuffix ==
    call.op # "none"
    => /\ ret.reader = ReaderFor(call.path)
       /\ ReaderFor(call.path) = ""
            => (ret.err = "UnsupportedFormat" /\ ret.opened = << >>)
       /\ call.op = "list"
            => ExtractArchiveFiles(fs, Workdir, maxSize, call).reader = ret.reader
       /\ call.op = "extract"
            => ListArchiveFiles(fs, Workdir, call).reader = ret.reader

\* C16 witness: a call on an existing zip archive whose suffix is written in
\* capitals, which fails with UnsupportedFormat
C16_Witness ==
    /\ call.op # "none"
    /\ call.path = PathUpper
    /\ fs[call.path].kind = "file"
    /\ ret.err = "UnsupportedFormat"
    /\ ret.opened = << >>

\* C17: a call whose path securePath rejects as outside the working
\* directory fails with OutsideSandbox whatever the suffix of the path, also
\* when the suffix is not supported.
C17_GuardBeforeDispatch ==
    (call.op # "none" /\ securePath(fs, Workdir, call.path).err = "OutsideSandbox")
    => ret.err = "OutsideSandbox"

\* C18: a call whose path is not absolute is resolved against the working
\* directory: when the path so resolved is accepted by securePath, the call
\* is not rejected for its path.
C18_RelativePathAccepted ==
    ( /\ call.op # "none"
      /\ ~IsAbs(call.path)
      /\ securePath(fs, Workdir, Workdir \o << "/" >> \o call.path).err = "none" )
    => ret.err # "NotAbsolute"

\* C19: a call on an existing path inside the working directory given to New
\* is accepted by securePath, which returns the path with its symbolic links
\* resolved, also when the working directory is reached through a symbolic
\* link: the call is not rejected as outside the working directory.
C19_PathInsideLinkedRootAccepted ==
    ( /\ call.op # "none"
      /\ IsAbs(call.path)
      /\ IsDescendant(Clean(call.path), Workdir)
      /\ EvalSymlinks(fs, Clean(call.path)).err = "none"
      /\ IsDescendant(EvalSymlinks(fs, Clean(call.path)).path,
                      EvalSymlinks(fs, Workdir).path) )
    => /\ securePath(fs, Workdir, call.path)
            = [err |-> "none", path |-> EvalSymlinks(fs, Clean(call.path)).path]
       /\ ret.err # "OutsideSandbox"

\* how often a handle occurs in a sequence of handles
CountHandle(hs, h) == Cardinality({ i \in 1..Len(hs) : hs[i] = h })

\* C20: when a list or extract call returns, every file, gzip stream, zip
\* archive and zip entry reader it opened has been closed, as often as it was
\* opened, whatever the way the call ended; a call that opened an archive did
\* open a handle, and a zip extraction one entry reader for each buffer.
C20_HandlesClosed ==
    call.op # "none"
    => /\ \A h \in { "file", "gzip", "zip", "rc" } :
             CountHandle(ret.handles.opened, h) = CountHandle(ret.handles.closed, h)
       /\ ret.opened # << >> => ret.handles.opened # << >>
       /\ ret.reader = "targz" /\ ret.opened # << >>
            => CountHandle(ret.handles.opened, "gzip") = 1
       /\ ret.reader = "zip" /\ call.op = "extract"
            => CountHandle(ret.handles.opened, "rc") = Len(ret.allocs)

\* C20 witness: an extraction from a tar.gz archive that ended with
\* FileTooLarge after it had opened the file and the gzip stream
C20_Witness ==
    /\ call.op = "extract"
    /\ ret.err = "FileTooLarge"
    /\ ret.handles.opened = << "file", "gzip" >>
    /\ ret.handles.closed = << "gzip", "file" >>

\* the listing a ListArchiveFiles call returns, NoListing when it failed
Listing == [f \in DOMAIN NoListing |-> ret[f]]

\* C21: a list call whose cpio or tar reader meets damaged data, also after
\* it has read entries, fails with the reader's error and returns no listing,
\* not the entries read so far; a list call that succeeds has read every
\* record of its archive up to the end.
C21_MalformedFailsWhole ==
    (call.op = "list" /\ ret.opened # << >> /\ ret.reader # "zip")
    => /\ (\E i \in 1..Len(OpenedArchive) : NextFails(OpenedArchive, i))
            => (ret.err = "Malformed" /\ Listing = NoListing)
       /\ ret.err = "none"
            => \A i \in 1..Len(OpenedArchive) : ~NextFails(OpenedArchive, i)

\* C21 witness: a list call that failed at damaged data behind two entries
\* its depth filter keeps
C21_Witness ==
    /\ call.op = "list"
    /\ ret.err = "Malformed"
    /\ Listing = NoListing
    /\ Len(OpenedArchive) >= 3
    /\ \A i \in 1..2 : /\ ~NextFails(OpenedArchive, i)
                        /\ ~DepthSkips(OpenedArchive[i].name, call.depth)

\* C23: no list or extract call, successful or failing, changes Workdir or
\* maxSize of the Archive, and none changes the archive file or any other
\* path of the file system.
C23_CallsChangeNothing ==
    [][ (call.op = "none" /\ call'.op # "none")
        => (Workdir' = Workdir /\ maxSize' = maxSize /\ fs' = fs) ]_vars

\* C23 witness: a call that opened its archive and failed, with the Archive
\* as New made it
C23_Witness ==
    /\ call.op # "none"
    /\ ret.opened # << >>
    /\ ret.err \in { "FileTooLarge", "ReadFailed", "Malformed" }
    /\ Workdir = New(PathRoot)
    /\ maxSize = MaxSize

\* every requested entry of the opened archive holds the bytes it declares
RequestedIntact ==
    \A i \in 1..Len(RequestedEntries) :
       Len(RequestedEntries[i].data) >= RequestedEntries[i].size

\* C26: maxSize is tested for requested entries only: an extract call on an
\* archive with an entry larger than maxSize whose name is not requested
\* does not fail for it, and returns the requested entries.
C26_LimitOnlyForRequested ==
    ( /\ ExtractedArchive
      /\ Intact \/ (ret.reader = "zip" /\ RequestedIntact)
      /\ NoRepeat
      /\ RequestedFit
      /\ \E i \in 1..Len(OpenedArchive) : OpenedArchive[i].size > maxSize )
    => /\ ret.err = "none"
       /\ NamesOf(ret.extracted) = NamesOf(RequestedEntries)

\* C26 witness: an extract call that returned a file from an archive that
\* holds, before the last file returned, an entry larger than maxSize
C26_Witness ==
    /\ ExtractedArchive
    /\ ret.err = "none"
    /\ ret.extracted # << >>
    /\ \E i, j \in 1..Len(OpenedArchive) :
          /\ i < j
          /\ OpenedArchive[i].size > maxSize
          /\ OpenedArchive[j].name = ret.extracted[Len(ret.extracted)].name

C27_SizeCheckStrict ==
    (ExtractedArchive /\ Intact /\ NoRepeat /\ maxSize >= 0)
    => /\ (RequestedFit /\ \E i \in 1..Len(RequestedEntries) :
                               RequestedEntries[i].size = maxSize)
            => /\ ret.err = "none"
               /\ \E k \in 1..Len(ret.extracted) :
                     /\ ret.extracted[k].size = maxSize
                     /\ Len(ret.extracted[k].content) = maxSize
       /\ (\E i \in 1..Len(RequestedEntries) : RequestedEntries[i].size = maxSize + 1)
            => (ret.err = "FileTooLarge" /\ ret.extracted = << >>)

\* C27 witness: a zip extraction that returned an entry of exactly maxSize
\* bytes, more than one
C27_Witness ==
    /\ ExtractedArchive
    /\ ret.reader = "zip"
    /\ ret.err = "none"
    /\ maxSize > 1
    /\ Len(ret.extracted) = 1
    /\ ret.extracted[1].size = maxSize

\* a sequence from its last element to its first
Reverse(seq) == [k \in 1..Len(seq) |-> seq[Len(seq) + 1 - k]]

\* the file is the extraction of the record at position i of the opened archive
ExtractedFrom(file, i) ==
    /\ OpenedArchive[i].name = file.name
    /\ OpenedArchive[i].data = file.content

\* C28: the files an extract call returns stand in the order of their
\* entries in the archive, not of the names in the request: of two files
\* returned the earlier one is the extraction of an entry that does not come
\* later in the archive, and the call with its names in reverse order
\* returns the same sequence.
C28_ArchiveOrder ==
    (ExtractedArchive /\ ret.err = "none")
    => /\ \A k, l \in 1..Len(ret.extracted) :
             k < l => \E i, j \in 1..Len(OpenedArchive) :
                         /\ i <= j
                         /\ ExtractedFrom(ret.extracted[k], i)
                         /\ ExtractedFrom(ret.extracted[l], j)
       /\ ExtractArchiveFiles(fs, Workdir, maxSize,
             [call EXCEPT !.names = Reverse(call.names)]).files = ret.extracted

\* C28 witness: an extract call that requested two names and returned their
\* two files with the name requested last in front
C28_Witness ==
    /\ ExtractedArchive
    /\ ret.err = "none"
    /\ Len(call.names) = 2
    /\ Len(ret.extracted) = 2
    /\ call.names[1] # call.names[2]
    /\ ret.extracted[1].name = call.names[2]
    /\ ret.extracted[2].name = call.names[1]

\* the call in progress is a ListArchiveFiles call that listed a zip archive
\* at a depth that keeps every entry
ListedWholeZip ==
    /\ ListedArchive
    /\ ret.reader = "zip"
    /\ ret.err = "none"
    /\ call.depth <= 0

\* C30: the size a listing reports for a zip entry is the uncompressed size
\* its header declares, and is not negative, for every size an unsigned
\* 64-bit integer holds, those of 2^63 and more included.
C30_ZipSizeAsDeclared ==
    ListedWholeZip
    => \A i \in 1..Len(ret.listed) :
          /\ ret.listed[i].size = OpenedArchive[i].size
          /\ ret.listed[i].size >= 0

\* what the call returns when it runs alone on the file system
Alone(args) ==
    IF args.op = "list" THEN ListOutcome(ListArchiveFiles(fs, Workdir, args))
    ELSE ExtractOutcome(ExtractArchiveFiles(fs, Workdir, maxSize, args))

\* C22: however the steps of the list and extract calls that run side by
\* side on one Archive fall among each other, each call returns the result
\* or the error it returns when it runs alone on the same file system.
C22_SameAsAlone ==
    \A t \in Threads :
       threads[t].pc = "done" => threads[t].result = Alone(threads[t].args)

\* C22 witness: a call that returned files, ended while another call on the
\* same archive was in the middle of its loop with entries of its own read
C22_Witness ==
    \E t, u \in Threads :
       /\ t # u
       /\ threads[t].pc = "done"
       /\ threads[t].result.err = "none"
       /\ threads[t].result.files # << >>
       /\ threads[u].pc = "reading"
       /\ threads[u].opened = threads[t].opened
       /\ threads[u].i > 1
       /\ threads[u].i <= Len(threads[u].ar)
       /\ threads[u].files # << >>
       /\ threads[u].files # threads[t].files

\* C25: whatever another process does to the file system between the steps
\* of a call, the file the call opens has, at the moment it is opened, a
\* canonical path that is the working directory or lies below it.
C25_OpenedUnderRootAtOpening ==
    \A t \in Threads :
       \A k \in 1..Len(threads[t].opened) :
          IsDescendant(threads[t].opened[k], Workdir)

\* C29: every call that was taken ends, by the end of the entries or by the
\* first error; while it reads, each of its steps moves it to the next record
\* of the same archive and none moves it back; and a call that has ended
\* takes no further step but the return of its result.
C29_CallsTerminate ==
    /\ \A t \in Threads : (threads[t].pc # "idle") ~> (threads[t].pc = "done")
    /\ [][ \A t \in Threads :
              /\ ( /\ threads'[t] # threads[t]
                   /\ threads[t].pc = "reading"
                   /\ threads'[t].pc = "reading" )
                 => /\ threads'[t].i = threads[t].i + 1
                    /\ threads'[t].ar = threads[t].ar
              /\ (threads'[t] # threads[t] /\ threads[t].pc = "done")
                 => threads'[t] = Idle ]_vars

\* C29 witness: a call that ended with Malformed at the third record of its
\* archive, and another that ended after the last of the records of its own
C29_Witness ==
    \E t, u \in Threads :
       /\ threads[t].pc = "done"
       /\ threads[t].result.err = "Malformed"
       /\ threads[t].i = 3
       /\ threads[u].pc = "done"
       /\ threads[u].result.err = "none"
       /\ threads[u].i = Len(threads[u].ar) + 1
       /\ Len(threads[u].ar) >= 2

====
